---- MODULE Spec2Model ----
(***************************************************************************)
(* A model of src/main.py: the directory matcher find_matching_dirs (a     *)
(* pruned, capped os.walk over the user's home directory), the keyword     *)
(* query listener that renders its result, and the item-enter listener     *)
(* that creates the workspace directory, fills the command template and    *)
(* launches the terminal.                                                  *)
(*                                                                         *)
(* Strings are TLA+ strings (Len, SubSeq and \o work on them).  A path is  *)
(* a record [abs, parts] as pathlib parses it; the file system is the set  *)
(* of existing directories, each the sequence of its resolved components.  *)
(* It holds real directories only: no regular files (os.walk never puts    *)
(* them in dirs) and no symbolic links to directories.  A listing that     *)
(* fails with OSError is dropped by os.walk itself (onerror is not given); *)
(* WalkRaise stands for any other exception leaving the walk (such as a    *)
(* RecursionError of a recursive os.walk on a very deep tree), which is    *)
(* what the except clause of line 44 receives.                             *)
(***************************************************************************)
EXTENDS Integers, Sequences, FiniteSets, TLC

VARIABLES
    fs,             \* the directories that exist, as resolved component sequences
    pc,             \* position of the running handler / function
    caller,         \* who called find_matching_dirs: "direct" or "listener"
    arg,            \* the query as passed by the caller (raw)
    query,          \* find_matching_dirs: query.lower()                 (line 27)
    matches,        \* find_matching_dirs: the accumulator               (line 28)
    stack,          \* os.walk: the directories still to be walked (strings)
    root_path,      \* find_matching_dirs: Path(root)                    (line 32)
    dirs,           \* find_matching_dirs: the filtered dirs list        (line 34)
    idx,            \* position of the for loop of line 36 in dirs
    trace,          \* history: the paths the walk listed, tested and appended, in order
    skipped,        \* history: directories whose listing raised OSError inside os.walk
    aborted,        \* history: an exception reached the except clause of line 44
    log,            \* logger.error records of the running call
    fault,          \* history: the failure injected into the running item-enter handler
    items,          \* the list handed to RenderResultListAction
    data,           \* ItemEnterEvent.get_data()                         (line 94)
    workspace_path, \* ItemEnterEventListener: workspace_path            (lines 95, 100)
    created,        \* history: the directories the running handler created
    template,       \* extension.preferences['docker_command']           (line 107)
    docker_cmd,     \* the substituted command                           (line 108)
    launched,       \* the argv given to subprocess.Popen                (line 112)
    ret             \* the action object the handler returned

vars == <<fs, pc, caller, arg, query, matches, stack, root_path, dirs, idx,
          trace, skipped, aborted, log, fault, items, data, workspace_path,
          created, template, docker_cmd, launched, ret>>

walkVars  == <<caller, arg, query, matches, stack, root_path, dirs, idx,
               trace, skipped, aborted>>
enterVars == <<data, workspace_path, created, template, docker_cmd, launched>>

None == "<none>"
NoData == [action |-> None, path |-> ""]
NoPath == [abs |-> FALSE, parts |-> <<>>]

----------------------------------------------------------------------------
(* Bounds of the model.                                                    *)

MaxErrors == 1      \* listing errors (OSError) injected into one walk
MaxCreated == 2     \* directories created in one behaviour

(* The result cap of find_matching_dirs.                                   *)
Limit == 5

----------------------------------------------------------------------------
(* str methods.                                                            *)

UpperAlpha == "ABCDEFGHIJKLMNOPQRSTUVWXYZ"
LowerAlpha == "abcdefghijklmnopqrstuvwxyz"

CharAt(s, i) == SubSeq(s, i, i)

\* the lower-case letter of each upper-case letter
LowerTable ==
    [c \in {CharAt(UpperAlpha, i) : i \in 1..Len(UpperAlpha)} |->
        CharAt(LowerAlpha, CHOOSE i \in 1..Len(UpperAlpha) : CharAt(UpperAlpha, i) = c)]

LowerChar(c) == IF c \in DOMAIN LowerTable THEN LowerTable[c] ELSE c

RECURSIVE Lower(_)
Lower(s) == IF s = "" THEN "" ELSE LowerChar(Head(s)) \o Lower(Tail(s))

\* sub in s
Contains(s, sub) ==
    \E i \in 1..(Len(s) - Len(sub) + 1) : SubSeq(s, i, i + Len(sub) - 1) = sub

StartsWith(s, p) == Len(p) <= Len(s) /\ SubSeq(s, 1, Len(p)) = p

\* s.find(sub, start): the least index >= start where sub occurs, 0 when none
Find(s, sub, start) ==
    LET at == {i \in start..(Len(s) - Len(sub) + 1) : SubSeq(s, i, i + Len(sub) - 1) = sub}
    IN  IF at = {} THEN 0 ELSE CHOOSE i \in at : \A j \in at : i <= j

\* s.replace(old, new) for a non-empty old: scan left to right, replace each
\* occurrence found and resume the scan after it (the result is not rescanned)
RECURSIVE ReplaceFrom(_, _, _, _)
ReplaceFrom(s, old, new, start) ==
    LET i == Find(s, old, start)
    IN  IF i = 0 THEN SubSeq(s, start, Len(s))
        ELSE SubSeq(s, start, i - 1) \o new \o ReplaceFrom(s, old, new, i + Len(old))

ReplaceFirst(s, old, new) ==
    LET i == Find(s, old, 1)
    IN  IF i = 0 THEN s
        ELSE SubSeq(s, 1, i - 1) \o new \o SubSeq(s, i + Len(old), Len(s))

Replace(s, old, new) == ReplaceFrom(s, old, new, 1)

----------------------------------------------------------------------------
(* pathlib.PurePosixPath.                                                  *)

\* s.split('/')
RECURSIVE Split(_)
Split(s) ==
    LET i == Find(s, "/", 1)
    IN  IF i = 0 THEN <<s>>
        ELSE <<SubSeq(s, 1, i - 1)>> \o Split(SubSeq(s, i + 1, Len(s)))

KeepPart(x) == x # "" /\ x # "."

\* Path(s): empty and '.' components are dropped, a leading '/' makes it absolute
PathOf(s) == [abs |-> StartsWith(s, "/"), parts |-> SelectSeq(Split(s), KeepPart)]

RECURSIVE Join(_)
Join(parts) ==
    IF parts = <<>> THEN ""
    ELSE IF Len(parts) = 1 THEN parts[1]
    ELSE parts[1] \o "/" \o Join(Tail(parts))

\* str(path)
Str(p) ==
    IF p.abs THEN "/" \o Join(p.parts)
    ELSE IF p.parts = <<>> THEN "." ELSE Join(p.parts)

TruedivConcat(a, b) == [abs |-> a.abs, parts |-> a.parts \o b.parts]

\* a / b: an absolute right operand replaces the left one
Truediv(a, b) == IF b.abs THEN b ELSE [abs |-> a.abs, parts |-> a.parts \o b.parts]

\* path.name
Name(p) == IF p.parts = <<>> THEN "" ELSE p.parts[Len(p.parts)]

Front(seq) == SubSeq(seq, 1, Len(seq) - 1)

\* Path.home()
HomeParts == <<"home", "u">>
Home == [abs |-> TRUE, parts |-> HomeParts]

----------------------------------------------------------------------------
(* The file system: directories as resolved component sequences.           *)

\* the directory an absolute component sequence names, '..' resolved by the kernel
RECURSIVE Resolve(_)
Resolve(parts) ==
    IF parts = <<>> THEN <<>>
    ELSE LET up == Resolve(Front(parts))
             last == parts[Len(parts)]
         IN  IF last = ".." THEN (IF up = <<>> THEN <<>> ELSE Front(up))
             ELSE Append(up, last)

IsPrefix(a, b) == Len(a) <= Len(b) /\ SubSeq(b, 1, Len(a)) = a

\* the directories that always exist
BaseDirs == {<<>>, <<"home">>, HomeParts}

\* the spec's scenario: projects/app1, projects/app2, .hidden/app3, work/App4,
\* and a hidden directory whose own name matches
ScenarioDirs ==
    {HomeParts \o t : t \in {<<"projects">>, <<"projects", "app1">>, <<"projects", "app2">>,
                             <<"projects", ".app6">>,
                             <<".hidden">>, <<".hidden", "app3">>,
                             <<"work">>, <<"work", "App4">>}}

\* further subtrees a snapshot may hold
OptionalDirs ==
    {HomeParts \o t : t \in {<<"work", "apps">>, <<"work", "apps", "zapp">>,
                             <<"work", "apps", "app5">>}}

ParentClosed(S) == \A d \in S : Front(d) \in S \cup ScenarioDirs

\* the snapshots a behaviour may start from: the bare home, and the scenario
\* with any parent-closed choice of the optional subtrees
Snapshots ==
    {BaseDirs} \cup
    {BaseDirs \cup ScenarioDirs \cup S : S \in {T \in SUBSET OptionalDirs : ParentClosed(T)}}

\* the subdirectories of directory d, by name
ChildDirs(tree, d) == {c[Len(c)] : c \in {e \in tree : Len(e) = Len(d) + 1 /\ IsPrefix(d, e)}}

\* the orders in which the OS may enumerate a set of entries
Orders(S) ==
    {o \in [1..Cardinality(S) -> S] : \A i, j \in 1..Cardinality(S) : o[i] = o[j] => i = j}

\* os.mkdir(parts): the parent must resolve to an existing directory
ParentExists(tree, parts) ==
    \A k \in 0..(Len(parts) - 1) : Resolve(SubSeq(parts, 1, k)) \in tree

\* Path.mkdir(parents=True, exist_ok=True) on an absolute path: the tree afterwards
\* and whether it returned (ok) or raised.  denied: os.mkdir raises PermissionError.
RECURSIVE MkdirParents(_, _, _)
MkdirParents(tree, parts, denied) ==
    IF denied THEN [ok |-> FALSE, fs |-> tree]
    ELSE IF ParentExists(tree, parts)
    THEN [ok |-> TRUE, fs |-> tree \cup {Resolve(parts)}]     \* created, or exist_ok
    ELSE LET up == MkdirParents(tree, Front(parts), denied)   \* FileNotFoundError
         IN  IF up.ok THEN [ok |-> TRUE, fs |-> up.fs \cup {Resolve(parts)}] ELSE up

MkdirParentOnly(tree, parts, denied) == MkdirParents(tree, Front(parts), denied)

\* line 101: workspace_path.mkdir(parents=True, exist_ok=True)
Mkdir(tree, parts, denied) == MkdirParents(tree, parts, denied)

----------------------------------------------------------------------------
(* Inputs.                                                                 *)

\* what the query source may supply (event.get_argument() or "")
Queries == {"", "App", ".", "/home/x", "../x/y"}

\* the queries find_matching_dirs is called with directly (the listener never
\* passes the empty one)
DirectQueries == {""}

Token == "$WORKSPACE_BASE"

\* values of the docker_command preference
Templates ==
    {"docker run -v $WORKSPACE_BASE:/ws image",
     "cd $WORKSPACE_BASE && ls $WORKSPACE_BASE_DIR",
     "echo $WORKSPACE_BAS"}

ReadSuffix == "; read -p \"Press Enter to close...\""

----------------------------------------------------------------------------
(* find_matching_dirs.                                                     *)

NotHidden(name) == ~StartsWith(name, ".")

KeepAllDirs(listing) == listing

\* line 34: dirs[:] = [d for d in dirs if not d.startswith('.')]
FilterDirs(listing) == SelectSeq(listing, NotHidden)

\* line 37: query in dir_name.lower()
Matches(q, dir_name) == Contains(Lower(dir_name), q)

CapReachedNever(n) == FALSE
CapReachedLate(n) == n > Limit

\* line 42: the cap
CapReached(n) == n >= Limit

FullPathBare(root, dir_name) == PathOf(dir_name)

\* line 38: root_path / dir_name
FullPath(root, dir_name) == Truediv(root, PathOf(dir_name))

\* os.path.join(top, name)
OsJoin(top, name) == top \o "/" \o name

\* os.walk resumed after the loop: the (filtered) dirs are walked next, first first
PushDirs(top, ds, stk) == [i \in 1..Len(ds) |-> OsJoin(top, ds[i])] \o stk

\* no item-enter handler is running
ResetEnter ==
    /\ data' = NoData
    /\ workspace_path' = NoPath
    /\ created' = {}
    /\ template' = None
    /\ docker_cmd' = None
    /\ launched' = <<>>

\* no walk is running
ResetWalk ==
    /\ caller' = None
    /\ arg' = ""
    /\ query' = ""
    /\ matches' = <<>>
    /\ stack' = <<>>
    /\ root_path' = NoPath
    /\ dirs' = <<>>
    /\ idx' = 0
    /\ trace' = <<>>
    /\ skipped' = {}
    /\ aborted' = FALSE

\* lines 26-28 and the call of os.walk(str(home))
EnterFind(q, who) ==
    /\ caller' = who
    /\ arg' = q
    /\ query' = Lower(q)
    /\ matches' = <<>>
    /\ stack' = <<Str(Home)>>
    /\ root_path' = NoPath
    /\ dirs' = <<>>
    /\ idx' = 0
    /\ trace' = <<>>
    /\ skipped' = {}
    /\ aborted' = FALSE
    /\ log' = <<>>
    /\ fault' = None
    /\ items' = <<>>
    /\ ret' = None
    /\ ResetEnter
    /\ pc' = "walk"
    /\ UNCHANGED fs

\* a direct call of find_matching_dirs(q)
FindCall(q) ==
    /\ pc = "idle"
    /\ EnterFind(q, "direct")

\* os.walk yields the next directory: scandir succeeded, line 32 and line 34
WalkYield ==
    /\ pc = "walk"
    /\ stack # <<>>
    /\ LET top == Head(stack)
           here == Resolve(PathOf(top).parts)
       IN  \E listing \in Orders(ChildDirs(fs, here)) :
             /\ root_path' = PathOf(top)
             /\ dirs' = FilterDirs(listing)
             /\ idx' = 1
             /\ trace' = Append(trace, <<"list", PathOf(top)>>)
             /\ pc' = "loop"
    /\ UNCHANGED <<fs, caller, arg, query, matches, stack, skipped, aborted, log, fault,
                   items, ret>>
    /\ UNCHANGED enterVars

WalkSkipLogged ==
    /\ pc = "walk"
    /\ stack # <<>>
    /\ Cardinality(skipped) < MaxErrors
    /\ skipped' = skipped \cup {Head(stack)}
    /\ stack' = Tail(stack)
    /\ log' = Append(log, "Error searching directories")
    /\ UNCHANGED <<fs, pc, caller, arg, query, matches, root_path, dirs, idx, trace, aborted,
                   fault, items, ret>>
    /\ UNCHANGED enterVars

\* scandir raises OSError: os.walk (onerror=None) drops the directory and goes on
WalkSkip ==
    /\ pc = "walk"
    /\ stack # <<>>
    /\ Cardinality(skipped) < MaxErrors
    /\ skipped' = skipped \cup {Head(stack)}
    /\ stack' = Tail(stack)
    /\ UNCHANGED <<fs, pc, caller, arg, query, matches, root_path, dirs, idx, trace, aborted,
                   log, fault, items, ret>>
    /\ UNCHANGED enterVars

\* lines 44-45: any other exception of the walk reaches the except clause
WalkRaise ==
    /\ pc = "walk"
    /\ stack # <<>>
    /\ aborted' = TRUE
    /\ log' = Append(log, "Error searching directories")
    /\ pc' = "ret"
    /\ UNCHANGED <<fs, caller, arg, query, matches, stack, root_path, dirs, idx, trace,
                   skipped, fault, items, ret>>
    /\ UNCHANGED enterVars

\* lines 36-43: one iteration of the for loop
TestDir ==
    /\ pc = "loop"
    /\ idx <= Len(dirs)
    /\ LET dir_name == dirs[idx]
           full_path == FullPath(root_path, dir_name)
       IN  IF Matches(query, dir_name)
           THEN /\ matches' = Append(matches, full_path)
                /\ trace' = trace \o <<<<"test", full_path>>, <<"append", full_path>>>>
                /\ pc' = IF CapReached(Len(matches) + 1) THEN "ret" ELSE "loop"
           ELSE /\ matches' = matches
                /\ trace' = Append(trace, <<"test", full_path>>)
                /\ pc' = "loop"
    /\ idx' = idx + 1
    /\ UNCHANGED <<fs, caller, arg, query, stack, root_path, dirs, skipped, aborted, log,
                   fault, items, ret>>
    /\ UNCHANGED enterVars

\* the for loop ends and os.walk is resumed: it pushes the dirs it was left with
LoopEnd ==
    /\ pc = "loop"
    /\ idx > Len(dirs)
    /\ stack' = PushDirs(Head(stack), dirs, Tail(stack))
    /\ pc' = "walk"
    /\ UNCHANGED <<fs, caller, arg, query, matches, root_path, dirs, idx, trace, skipped,
                   aborted, log, fault, items, ret>>
    /\ UNCHANGED enterVars

\* os.walk is exhausted: line 47
WalkEnd ==
    /\ pc = "walk"
    /\ stack = <<>>
    /\ pc' = "ret"
    /\ UNCHANGED <<fs, caller, arg, query, matches, stack, root_path, dirs, idx, trace,
                   skipped, aborted, log, fault, items, ret>>
    /\ UNCHANGED enterVars

----------------------------------------------------------------------------
(* KeywordQueryEventListener.on_event.                                     *)

HideWindow == [type |-> "HideWindowAction", data |-> NoData]
Custom(d) == [type |-> "ExtensionCustomAction", data |-> d]

\* lines 56-61
PlaceholderItem ==
    [name |-> "Enter directory path",
     description |-> "Start typing to search or create a directory",
     on_enter |-> HideWindow]

\* lines 68-76
CreateItem(q) ==
    [name |-> "Create and use: " \o q,
     description |-> "Create this directory and use it as workspace",
     on_enter |-> Custom([action |-> "create", path |-> q])]

\* lines 80-88
UseItem(dir_path) ==
    [name |-> Str(dir_path),
     description |-> "Use this directory as workspace",
     on_enter |-> Custom([action |-> "use", path |-> Str(dir_path)])]

RenderMatchesOnly(q, matching_dirs) ==
    [i \in 1..Len(matching_dirs) |-> UseItem(matching_dirs[i])]

\* lines 67-90: the items for a non-empty query
Render(q, matching_dirs) ==
    <<CreateItem(q)>> \o [i \in 1..Len(matching_dirs) |-> UseItem(matching_dirs[i])]

\* lines 51-65: the handler up to the call of find_matching_dirs
KeywordQuery(q) ==
    /\ pc = "idle"
    /\ IF q = ""
       THEN /\ items' = <<PlaceholderItem>>
            /\ ret' = "RenderResultListAction"
            /\ log' = <<>>
            /\ fault' = None
            /\ pc' = "idle"
            /\ ResetWalk
            /\ ResetEnter
            /\ UNCHANGED fs
       ELSE EnterFind(q, "listener")

\* find_matching_dirs returns matches (lines 43, 47); the listener renders (lines 67-90)
FindReturn ==
    /\ pc = "ret"
    /\ IF caller = "listener"
       THEN /\ items' = Render(arg, matches)
            /\ ret' = "RenderResultListAction"
       ELSE /\ items' = <<>>
            /\ ret' = "matches"
    /\ pc' = "idle"
    /\ UNCHANGED <<fs, log, fault>>
    /\ UNCHANGED walkVars
    /\ UNCHANGED enterVars

----------------------------------------------------------------------------
(* ItemEnterEventListener.on_event.                                        *)

NewDirs(tree) == tree \ (BaseDirs \cup ScenarioDirs \cup OptionalDirs)

CreateOutcomeNoReturn(ok) ==
    [log |-> IF ok THEN <<>> ELSE <<"Failed to create directory">>,
     ret |-> None,
     pc  |-> "subst"]

\* lines 99-104: after mkdir the handler goes on, or logs and returns HideWindowAction
CreateOutcome(ok) ==
    IF ok THEN [log |-> <<>>, ret |-> None, pc |-> "subst"]
    ELSE [log |-> <<"Failed to create directory">>, ret |-> "HideWindowAction", pc |-> "idle"]

\* lines 94-104: the selected item's payload, and the directory of a 'create'
ItemEnter(i) ==
    /\ pc = "idle"
    /\ i \in 1..Len(items)
    /\ items[i].on_enter.type = "ExtensionCustomAction"
    /\ LET d == items[i].on_enter.data
       IN  /\ data' = d
           /\ IF d.action = "create"
              THEN \E denied \in BOOLEAN :
                     LET path == Truediv(Home, PathOf(d.path))
                         made == Mkdir(fs, path.parts, denied)
                     IN  /\ Cardinality(NewDirs(made.fs)) <= MaxCreated
                         /\ workspace_path' = path
                         /\ fs' = made.fs
                         /\ created' = made.fs \ fs
                         /\ fault' = IF made.ok THEN None ELSE "mkdir"
                         /\ log' = CreateOutcome(made.ok).log
                         /\ ret' = CreateOutcome(made.ok).ret
                         /\ pc' = CreateOutcome(made.ok).pc
              ELSE /\ workspace_path' = PathOf(d.path)
                   /\ created' = {}
                   /\ fault' = None
                   /\ log' = <<>>
                   /\ ret' = None
                   /\ pc' = "subst"
                   /\ UNCHANGED fs
    /\ items' = <<>>
    /\ template' = None
    /\ docker_cmd' = None
    /\ launched' = <<>>
    /\ ResetWalk

\* lines 107-108
EnterSubst ==
    /\ pc = "subst"
    /\ \E t \in Templates :
         /\ template' = t
         /\ docker_cmd' = Replace(t, Token, Str(workspace_path))
    /\ pc' = "launch"
    /\ UNCHANGED <<fs, log, fault, items, ret, data, workspace_path, created, launched>>
    /\ UNCHANGED walkVars

\* lines 110-116
EnterLaunch ==
    /\ pc = "launch"
    /\ \E spawnFails \in BOOLEAN :
         IF spawnFails
         THEN /\ log' = Append(log, "Failed to execute command")
              /\ launched' = <<>>
              /\ fault' = "spawn"
         ELSE /\ log' = log
              /\ fault' = fault
              /\ launched' = <<"kitty", "--", "bash", "-c", docker_cmd \o ReadSuffix>>
    /\ ret' = "HideWindowAction"
    /\ pc' = "idle"
    /\ UNCHANGED <<fs, items, data, workspace_path, created, template, docker_cmd>>
    /\ UNCHANGED walkVars

----------------------------------------------------------------------------
(* The specification.                                                      *)

Init ==
    /\ fs \in Snapshots
    /\ pc = "idle"
    /\ caller = None /\ arg = "" /\ query = "" /\ matches = <<>> /\ stack = <<>>
    /\ root_path = NoPath /\ dirs = <<>> /\ idx = 0
    /\ trace = <<>> /\ skipped = {} /\ aborted = FALSE
    /\ log = <<>> /\ fault = None /\ items = <<>>
    /\ data = NoData /\ workspace_path = NoPath /\ created = {}
    /\ template = None /\ docker_cmd = None /\ launched = <<>>
    /\ ret = None

Next ==
    \/ \E q \in DirectQueries : FindCall(q)
    \/ \E q \in Queries : KeywordQuery(q)
    \/ WalkYield
    \/ WalkSkip
    \/ WalkRaise
    \/ TestDir
    \/ LoopEnd
    \/ WalkEnd
    \/ FindReturn
    \/ \E i \in 1..(Limit + 1) : ItemEnter(i)
    \/ EnterSubst
    \/ EnterLaunch

Spec == Init /\ [][Next]_vars

----------------------------------------------------------------------------
(* What the claims speak of.                                               *)

Min(a, b) == IF a <= b THEN a ELSE b

\* strictly below the home directory
InsideHome(d) == Len(d) > Len(HomeParts) /\ IsPrefix(HomeParts, d)

\* no component below the home directory starts with '.'
HiddenFree(d) == \A k \in (Len(HomeParts) + 1)..Len(d) : ~StartsWith(d[k], ".")

\* the directories of tree below home, reachable through non-hidden directories
\* only, whose base name contains q case-insensitively
MatchSet(tree, q) ==
    {d \in tree : /\ InsideHome(d)
                  /\ HiddenFree(d)
                  /\ Contains(Lower(d[Len(d)]), Lower(q))}

\* the tree with everything beneath the directories in tops (path strings) removed
Prune(tree, tops) ==
    {d \in tree : \A t \in tops :
        LET td == Resolve(PathOf(t).parts) IN ~(IsPrefix(td, d) /\ d # td)}

Returned == {matches[i].parts : i \in 1..Len(matches)}

NoDuplicates == \A i, j \in 1..Len(matches) : matches[i] = matches[j] => i = j

IsAppend(e) == e[1] = "append"

\* the paths appended, in the order of discovery
Discovered == SelectSeq(trace, IsAppend)

\* the walk over tree returned what the contract asks for
ResultOK(tree) ==
    LET M == MatchSet(tree, arg)
    IN  /\ Len(matches) = Min(Limit, Cardinality(M))
        /\ NoDuplicates
        /\ Returned \subseteq M
        /\ Cardinality(M) < Limit => Returned = M
        /\ Len(Discovered) = Len(matches)
        /\ \A i \in 1..Len(matches) : Discovered[i][2] = matches[i]

InWalk == pc \in {"walk", "loop", "ret"}

\* C1: every path accumulated, hence every path returned, is an existing
\* directory strictly below the home directory (an absolute path, never the
\* home itself) whose base name, lowercased, contains the lowercased query.
C1_ReturnedAreMatchingSubdirs ==
    InWalk =>
      \A i \in 1..Len(matches) :
        /\ matches[i].abs
        /\ InsideHome(matches[i].parts)
        /\ matches[i].parts \in fs
        /\ Contains(Lower(Name(matches[i])), Lower(arg))

C1_Witness ==
    /\ pc = "ret"
    /\ arg = "App"
    /\ \E i \in 1..Len(matches) : Str(matches[i]) = "/home/u/work/apps/zapp"
    /\ \E i \in 1..Len(matches) : Str(matches[i]) = "/home/u/work/App4"

\* C2: at every step of the walk nothing hidden is listed, tested, appended or
\* queued for descent: no path in the trace, in matches or on os.walk's stack
\* has a component below home that starts with '.'.
C2_HiddenNeverVisited ==
    InWalk =>
      /\ \A i \in 1..Len(trace) : HiddenFree(trace[i][2].parts)
      /\ \A i \in 1..Len(matches) : HiddenFree(matches[i].parts)
      /\ \A i \in 1..Len(stack) : HiddenFree(PathOf(stack[i]).parts)
      /\ \A i \in 1..Len(dirs) : ~StartsWith(dirs[i], ".")

C2_Witness ==
    /\ pc = "ret"
    /\ arg = "App"
    /\ stack = <<>>
    /\ \E i \in 1..Len(trace) : trace[i] = <<"list", PathOf("/home/u/projects")>>
    /\ HomeParts \o <<"projects", ".app6">> \in fs
    /\ HomeParts \o <<".hidden", "app3">> \in fs

\* C3: a walk without a traversal error returns a duplicate-free sequence of
\* length min(Limit, |M|) of members of M, all of M when |M| < Limit, in the
\* order of discovery.
C3_ResultIsCappedMatchSet ==
    (pc = "ret" /\ skipped = {} /\ ~aborted) => ResultOK(fs)

C3_Witness ==
    /\ pc = "ret" /\ skipped = {} /\ ~aborted
    /\ Cardinality(MatchSet(fs, arg)) > Limit
    /\ Len(matches) = Limit

\* C9: once Limit matches are accumulated the walk is over: the function is at
\* its return, the last thing the walk did is the append of the Limit-th match,
\* and the matches are the appended paths in the order of appending.
C9_WalkStopsAtCap ==
    Len(matches) >= Limit =>
      /\ pc \notin {"walk", "loop"}
      /\ Len(matches) = Limit
      /\ trace[Len(trace)] = <<"append", matches[Limit]>>
      /\ \A i \in 1..Limit : Discovered[i][2] = matches[i]

C9_Witness ==
    /\ pc = "ret"
    /\ Len(matches) = Limit
    /\ idx <= Len(dirs)
    /\ Len(stack) > 1

IsCreateThenUses(q) ==
    /\ Len(items) = 1 + Len(matches)
    /\ Len(items) <= 1 + Limit
    /\ items[1].on_enter = Custom([action |-> "create", path |-> q])
    /\ \A i \in 1..Len(matches) :
         items[i + 1].on_enter = Custom([action |-> "use", path |-> Str(matches[i])])

\* C5 as claimed: for every query, the empty one included, the rendered list is
\* the 'create' item for the query followed by one 'use' item per match.
C5_CreateItemFirstAlways ==
    ret = "RenderResultListAction" => IsCreateThenUses(arg)

\* C5 as amended: for every non-empty query the rendered list is the 'create'
\* item for the query followed by one 'use' item per path of the matcher, in
\* its order, at most Limit of them; for the empty query the matcher is not
\* called and the list is the single placeholder item, whose action hides the
\* window and carries no payload.
C5_CreateItemFirstUnlessEmpty ==
    ret = "RenderResultListAction" =>
      IF arg = ""
      THEN items = <<PlaceholderItem>> /\ trace = <<>> /\ matches = <<>>
      ELSE IsCreateThenUses(arg)

C5_Witness ==
    /\ ret = "RenderResultListAction"
    /\ arg = "App"
    /\ Len(items) = 1 + Limit
    /\ items[2].on_enter.data.action = "use"

\* the directories on the way from the root to d, d included
Ancestors(d) == {SubSeq(d, 1, k) : k \in 0..Len(d)}

\* mkdir has returned in the running handler
PastCreate == data.action = "create" /\ (pc \in {"subst", "launch"} \/ docker_cmd # None)

\* C6: for a 'create', from the moment mkdir has returned, hence when the
\* template is substituted and when the terminal is launched, the directory
\* Path.home() / p and all its parents exist, it being tolerated that they
\* existed before, and the path substituted is that same path.
C6_DirectoryExistsBeforeSubstitution ==
    PastCreate =>
      /\ workspace_path = Truediv(Home, PathOf(data.path))
      /\ Ancestors(Resolve(workspace_path.parts)) \subseteq fs
      /\ created \subseteq Ancestors(Resolve(workspace_path.parts))
      /\ docker_cmd # None => docker_cmd = Replace(template, Token, Str(workspace_path))

C6_Witness ==
    /\ pc = "launch"
    /\ data = [action |-> "create", path |-> "../x/y"]
    /\ created = {<<"home", "x">>, <<"home", "x", "y">>}

HasDotDot(p) == \E k \in 1..Len(PathOf(p).parts) : PathOf(p).parts[k] = ".."

\* C7 as claimed: for every payload path of a 'create' the directory created
\* and substituted lies in the home directory's subtree; a 'use' leaves the
\* path unchanged and creates nothing.
C7_CreateStaysInsideHome ==
    /\ PastCreate =>
         /\ IsPrefix(HomeParts, Resolve(workspace_path.parts))
         /\ \A d \in created : InsideHome(d)
    /\ data.action = "use" => (Str(workspace_path) = data.path /\ created = {})

\* C7 as amended: for a 'create' the payload path is joined onto the home
\* directory as pathlib joins: the components of a relative path are appended
\* to it, '..' kept as written, and without a '..' component the result is the
\* home directory or lies inside it; an absolute path replaces the home
\* directory and is created and substituted as given.  A 'use' leaves the path
\* unchanged and creates nothing.
C7_CreateJoinsOntoHome ==
    /\ PastCreate =>
         IF StartsWith(data.path, "/")
         THEN Str(workspace_path) = data.path
         ELSE /\ workspace_path = [abs |-> TRUE, parts |-> HomeParts \o PathOf(data.path).parts]
              /\ ~HasDotDot(data.path) =>
                   /\ IsPrefix(HomeParts, Resolve(workspace_path.parts))
                   /\ \A d \in created : InsideHome(d)
    /\ data.action = "use" => (Str(workspace_path) = data.path /\ created = {})

C7_Witness ==
    /\ pc = "launch"
    /\ data = [action |-> "create", path |-> "/home/x"]
    /\ created = {<<"home", "x">>}
    /\ Contains(docker_cmd, " /home/x:")

\* where the token occurs in t
Occurrences(t) ==
    {i \in 1..(Len(t) - Len(Token) + 1) : SubSeq(t, i, i + Len(Token) - 1) = Token}

\* r is t with every occurrence of the token replaced by w and nothing else
\* changed: position by position
IsSubstitution(t, w, r) ==
    LET occ == Occurrences(t)
        shift(i) == Cardinality({o \in occ : o < i}) * (Len(w) - Len(Token))
        inside(i) == \E o \in occ : o <= i /\ i < o + Len(Token)
    IN  /\ Len(r) = Len(t) + Cardinality(occ) * (Len(w) - Len(Token))
        /\ \A i \in 1..Len(t) : ~inside(i) => CharAt(r, i + shift(i)) = CharAt(t, i)
        /\ \A o \in occ : SubSeq(r, o + shift(o), o + shift(o) + Len(w) - 1) = w

\* C8: the command is the template with every occurrence of $WORKSPACE_BASE
\* replaced by the workspace path and nothing else changed, and it is what
\* bash -c is given in the kitty terminal, followed by the prompt that keeps
\* the terminal open.
C8_CommandIsTemplateSubstituted ==
    docker_cmd # None =>
      /\ IsSubstitution(template, Str(workspace_path), docker_cmd)
      /\ launched # <<>> =>
           launched = <<"kitty", "--", "bash", "-c", docker_cmd \o ReadSuffix>>

C8_Witness ==
    /\ template = "docker run -v $WORKSPACE_BASE:/ws image"
    /\ data.action = "use"
    /\ docker_cmd = "docker run -v /home/u/projects/app1:/ws image"
    /\ launched # <<>>

\* C10: when creating the directory fails the handler has logged it, has read
\* no template, substituted no command and launched nothing, and has returned
\* HideWindowAction; when the spawn fails the handler has logged it, nothing
\* was launched and it has returned HideWindowAction.
C10_FailuresLoggedAndHidden ==
    /\ fault = "mkdir" =>
         /\ data.action = "create"
         /\ pc = "idle"
         /\ log = <<"Failed to create directory">>
         /\ template = None /\ docker_cmd = None /\ launched = <<>>
         /\ ret = "HideWindowAction"
    /\ fault = "spawn" =>
         /\ pc = "idle"
         /\ log = <<"Failed to execute command">>
         /\ launched = <<>>
         /\ ret = "HideWindowAction"

C10_Witness ==
    /\ fault = "mkdir"
    /\ data = [action |-> "create", path |-> "App"]
    /\ ret = "HideWindowAction"

====
